---- MODULE Spec2Model ----
(***************************************************************************)
(* Model of the quad tree of rectutils (src/src/quadtree.rs) together with *)
(* the two Rect<f32> predicates it uses (src/src/lib.rs).                  *)
(*                                                                         *)
(* Coordinates are IEEE-754 binary32 values.  A non-negative finite f32 is *)
(* the pair <<m, e>> standing for m * 2^e, where either 2^23 <= m < 2^24   *)
(* (normal) or e = -149 and m < 2^23 (subnormal, zero is <<0, -149>>).     *)
(* Addition and halving round to nearest, ties to even, as the hardware    *)
(* does.  Negative values, infinities and NaN are not modelled: every      *)
(* input is drawn from non-negative values far below f32::MAX.             *)
(***************************************************************************)
EXTENDS Integers, Sequences, FiniteSets, TLC

\* ------------------------------------------------------------------------
\* binary32 arithmetic
\* ------------------------------------------------------------------------
MantBits == 24
MinExp == -149
Hidden == 2^(MantBits - 1)
MantLimit == 2^MantBits

FZero == <<0, MinExp>>

RECURSIVE Norm(_, _)
\* the f32 whose value is m * 2^e, for an m below 2^24 (exact conversion)
Norm(m, e) ==
    IF m = 0 THEN FZero
    ELSE IF m >= Hidden \/ e = MinExp THEN <<m, e>>
    ELSE Norm(2 * m, e - 1)

\* an integer literal such as 200.0
Lit(n) == Norm(n, 0)

\* a < b on f32
FLt(a, b) == a[2] < b[2] \/ (a[2] = b[2] /\ a[1] < b[1])

\* a <= b on f32
FLe(a, b) == a = b \/ FLt(a, b)

\* a + b for a[2] >= b[2], rounded to nearest, ties to even
FAddOrdered(a, b) ==
    LET d == a[2] - b[2] IN
    IF b[1] = 0 \/ d > MantBits THEN a
    ELSE
        LET p  == 2^d
            q  == b[1] \div p
            r  == b[1] % p
            M  == a[1] + q
        IN
        IF M < MantLimit
        THEN LET up == (2 * r > p) \/ (2 * r = p /\ M % 2 = 1)
                 M2 == IF up THEN M + 1 ELSE M
             IN IF M2 = MantLimit THEN <<Hidden, a[2] + 1>> ELSE <<M2, a[2]>>
        ELSE LET H   == M \div 2
                 bit == M % 2
                 up  == bit = 1 /\ (r > 0 \/ H % 2 = 1)
                 M2  == IF up THEN H + 1 ELSE H
             IN IF M2 = MantLimit THEN <<Hidden, a[2] + 2>> ELSE <<M2, a[2] + 1>>

\* a + b on f32
FAdd(a, b) == IF a[2] >= b[2] THEN FAddOrdered(a, b) ELSE FAddOrdered(b, a)

\* a * 0.5 on f32: exact unless the result is subnormal
FHalf(a) ==
    IF a[2] > MinExp THEN <<a[1], a[2] - 1>>
    ELSE LET H  == a[1] \div 2
             up == a[1] % 2 = 1 /\ H % 2 = 1
         IN <<IF up THEN H + 1 ELSE H, MinExp>>

\* ------------------------------------------------------------------------
\* Rect<f32>
\* ------------------------------------------------------------------------
Rect(x, y, w, h) == [position |-> <<x, y>>, size |-> <<w, h>>]

\* mutant: the right and the bottom edge are not part of the rectangle
contains_half_open(self, pt) ==
    /\ FLe(self.position[1], pt[1])
    /\ FLt(pt[1], FAdd(self.position[1], self.size[1]))
    /\ FLe(self.position[2], pt[2])
    /\ FLt(pt[2], FAdd(self.position[2], self.size[2]))

\* Rect::contains: inclusive on all four edges
contains(self, pt) ==
    /\ FLe(self.position[1], pt[1])
    /\ FLe(pt[1], FAdd(self.position[1], self.size[1]))
    /\ FLe(self.position[2], pt[2])
    /\ FLe(pt[2], FAdd(self.position[2], self.size[2]))

\* mutant: rectangles that only touch count as intersecting
intersects_touching(self, other) ==
    /\ FLe(other.position[1], FAdd(self.position[1], self.size[1]))
    /\ FLe(self.position[1], FAdd(other.position[1], other.size[1]))
    /\ FLe(other.position[2], FAdd(self.position[2], self.size[2]))
    /\ FLe(self.position[2], FAdd(other.position[2], other.size[2]))

\* Rect::intersects: strict on all four edges
intersects(self, other) ==
    /\ FLt(other.position[1], FAdd(self.position[1], self.size[1]))
    /\ FLt(self.position[1], FAdd(other.position[1], other.size[1]))
    /\ FLt(other.position[2], FAdd(self.position[2], self.size[2]))
    /\ FLt(self.position[2], FAdd(other.position[2], other.size[2]))

\* ------------------------------------------------------------------------
\* quadtree.rs
\* ------------------------------------------------------------------------
\* mutant: the quadrants row by row: top-left, top-right, bottom-left, bottom-right
split_rect_by_rows(rect) ==
    LET half_size == <<FHalf(rect.size[1]), FHalf(rect.size[2])>> IN
    << [position |-> rect.position, size |-> half_size],
       [position |-> <<FAdd(rect.position[1], half_size[1]), rect.position[2]>>,
        size |-> half_size],
       [position |-> <<rect.position[1], FAdd(rect.position[2], half_size[2])>>,
        size |-> half_size],
       [position |-> <<FAdd(rect.position[1], half_size[1]),
                       FAdd(rect.position[2], half_size[2])>>,
        size |-> half_size] >>

\* the four quadrants: top-left, top-right, bottom-right, bottom-left
split_rect(rect) ==
    LET half_size == <<FHalf(rect.size[1]), FHalf(rect.size[2])>> IN
    << [position |-> rect.position, size |-> half_size],
       [position |-> <<FAdd(rect.position[1], half_size[1]), rect.position[2]>>,
        size |-> half_size],
       [position |-> <<FAdd(rect.position[1], half_size[1]),
                       FAdd(rect.position[2], half_size[2])>>,
        size |-> half_size],
       [position |-> <<rect.position[1], FAdd(rect.position[2], half_size[2])>>,
        size |-> half_size] >>

Leaf(bounds, ids) == [kind |-> "Leaf", bounds |-> bounds, ids |-> ids, leaves |-> <<>>]
Branch(bounds, leaves) == [kind |-> "Branch", bounds |-> bounds, ids |-> <<>>, leaves |-> leaves]

\* depth at which build_recursive gives up
RecursionLimit == 64
\* usize::MAX, the placeholder of a child index not yet built (TLC's largest integer)
UsizeMax == 2147483647
\* Default::default() of split_threshold
DefaultSplitThreshold == 16

\* Entry { id, bounds }
Entry(id, bounds) == [id |-> id, bounds |-> bounds]

\* mutant: a quadrant keeps the entries whose position it contains
leaf_entries_by_position(entries, leaf_bounds) ==
    SelectSeq(entries, LAMBDA e : contains(leaf_bounds, e.bounds.position))

\* entries.iter().filter_map(|e| leaf_bounds.intersects(e.bounds)).collect()
leaf_entries(entries, leaf_bounds) ==
    SelectSeq(entries, LAMBDA e : intersects(leaf_bounds, e.bounds))

\* entries.iter().map(|e| e.id.clone()).collect()
entry_ids(entries) == [i \in 1..Len(entries) |-> entries[i].id]

\* ------------------------------------------------------------------------
\* inputs
\* ------------------------------------------------------------------------
\* 200 * 2^-64: the quadrant size of the depth-63 region of a root of size 200
Tiny == Norm(25, -61)

\* 20 + 2 ulp = 20.000003814697266
NearTwenty == <<10485762, -19>>

\* root bounds a tree is built over
RootBounds ==
    { Rect(FZero, FZero, Lit(200), Lit(200)),
      Rect(Lit(8), Lit(8), Lit(64), Lit(64)) }

\* the two objects of test_quad_tree: they touch at the corner (20, 20)
TestObjectA == Rect(Lit(10), Lit(10), Lit(10), Lit(10))
TestObjectB == Rect(Lit(20), Lit(20), Lit(10), Lit(10))
\* a zero-size object on both split lines of the root (0, 0, 200, 200)
PointObject == Rect(Lit(100), Lit(100), FZero, FZero)
\* an object that straddles both split lines of the root (0, 0, 200, 200) and
\* touches the corner (72, 72) of the root (8, 8, 64, 64) from outside
BigObject == Rect(Lit(72), Lit(72), Lit(56), Lit(56))
\* two objects that touch at a corner inside the depth-63 region at the origin
TinyObjectA == Rect(FZero, FZero, Tiny, Tiny)
TinyObjectB == Rect(Tiny, Tiny, Tiny, Tiny)
\* a zero-size object two rounding units below the corner (20, 20)
NearObject == Rect(Lit(20), NearTwenty, FZero, FZero)

\* bounds an offered object can have
ObjectBounds == { TestObjectA, TestObjectB, PointObject, BigObject }

\* most objects offered to one build, of any bounds of ObjectBounds
MaxObjects == 2
\* largest split threshold passed to a build
MaxThreshold == 2

SeqsUpTo(S, n) == UNION { [1..m -> S] : m \in 0..n }

\* the object sequences offered to a build
Scenes ==
    SeqsUpTo(ObjectBounds, MaxObjects)
        \cup { <<TinyObjectA, TinyObjectB>>,
               <<TestObjectA, TestObjectB, NearObject>> }

\* points a query is made at
QueryCoords == { FZero, Lit(15), Lit(20), Lit(100), Lit(250) }
\* a point on a split line deep in the tree of test_quad_tree, one f32 past
\* the bottom edge of the branch that is split there
SplitLinePoint == <<<<10485761, -19>>, <<10485763, -19>>>>

\* the point test::quad_tree_point_query asks for
TestPoint == <<Lit(10), Lit(10)>>

Points ==
    { <<c, c>> : c \in QueryCoords }
        \cup { <<Lit(15), Lit(100)>>, <<Lit(20), NearTwenty>>, TestPoint,
               SplitLinePoint }

\* ------------------------------------------------------------------------
\* state
\* ------------------------------------------------------------------------
VARIABLES
    nodes,            \* QuadTree.nodes, the arena; Rust index i is nodes[i + 1]
    root,             \* QuadTree.root
    split_threshold,  \* QuadTree.split_threshold
    pc,               \* "idle", or "building" while QuadTree::new runs
    args,             \* the arguments of the call of QuadTree::new
    building,         \* the local `nodes` of QuadTree::new
    stack,            \* the calls of build_recursive that have not returned
    result,           \* "None", or what QuadTree::new returned: "Ok" or "Err"
    deepest,          \* the largest depth build_recursive was called at
    crowded,          \* the depths of the calls made with more than split_threshold entries
    unwound,          \* the calls an Err(ReachedRecursionLimit) was handed up through
    query             \* the last point_query: point, storage, try_push calls

vars == <<nodes, root, split_threshold, pc, args, building, stack, result,
          deepest, crowded, unwound, query>>

NoArgs == [root_bounds |-> Rect(FZero, FZero, FZero, FZero), objects |-> <<>>,
           split_threshold |-> 0]
NoQuery == [made |-> FALSE]

\* mutant: a default tree whose arena holds a leaf at the root index
Default_with_leaf ==
    [nodes |-> <<Leaf(Rect(FZero, FZero, Lit(200), Lit(200)), <<0>>)>>, root |-> 0,
     split_threshold |-> DefaultSplitThreshold]

\* Default for QuadTree
Default ==
    [nodes |-> <<>>, root |-> 0, split_threshold |-> DefaultSplitThreshold]

\* a default-constructed tree, nothing built or queried yet
Init ==
    /\ nodes = Default.nodes
    /\ root = Default.root
    /\ split_threshold = Default.split_threshold
    /\ pc = "idle"
    /\ args = NoArgs
    /\ building = <<>>
    /\ stack = <<>>
    /\ result = "None"
    /\ deepest = 0
    /\ crowded = {}
    /\ unwound = <<>>
    /\ query = NoQuery

\* a call of build_recursive(nodes, bounds, entries, split_threshold, depth);
\* once it is in its for loop, `leaf` is the quadrant being built and `leaves`
\* the child indices so far
Call(bounds, entries, depth) ==
    [bounds |-> bounds, entries |-> entries, depth |-> depth, leaf |-> 0,
     leaves |-> <<UsizeMax, UsizeMax, UsizeMax, UsizeMax>>]

\* the recursive call for quadrant `leaf` of the call `c`
ChildCall(c, leaf) ==
    LET leaf_bounds == split_rect(c.bounds)[leaf]
    IN Call(leaf_bounds, leaf_entries(c.entries, leaf_bounds), c.depth + 1)

Pop(s) == SubSeq(s, 1, Len(s) - 1)
Top(s) == s[Len(s)]

\* mutant: QuadTree::new keeps every offered object
root_entries_unfiltered(root_bounds, objects) ==
    [i \in 1..Len(objects) |-> Entry(i - 1, objects[i])]

\* the root filter of QuadTree::new; an object's id is its position in the input
root_entries(root_bounds, objects) ==
    SelectSeq([i \in 1..Len(objects) |-> Entry(i - 1, objects[i])],
              LAMBDA e : intersects(root_bounds, e.bounds))

\* QuadTree::new up to its call of build_recursive
New(root_bounds, objects, threshold) ==
    /\ pc = "idle"
    /\ result = "None"
    /\ pc' = "building"
    /\ args' = [root_bounds |-> root_bounds, objects |-> objects,
                split_threshold |-> threshold]
    /\ building' = <<>>
    /\ stack' = << Call(root_bounds, root_entries(root_bounds, objects), 0) >>
    /\ deepest' = 0
    /\ crowded' = IF Len(Top(stack').entries) > threshold THEN {0} ELSE {}
    /\ unwound' = <<>>
    /\ query' = NoQuery
    /\ UNCHANGED <<nodes, root, split_threshold, result>>

\* mutant: the index build_recursive returned is not kept
store_leaf_dropped(leaves, leaf, index) == leaves

\* *leaf = build_recursive(..)?: the index a quadrant's call returned is stored
store_leaf(leaves, leaf, index) == [leaves EXCEPT ![leaf] = index]

RECURSIVE Return(_, _, _)
\* A call returns Ok(index) to the calls in `callers`: the caller stores the
\* index and goes on with its next quadrant, or, after the fourth, pushes its
\* branch and returns in turn.  The outcome is the stack and arena at the next
\* call of build_recursive, or the index QuadTree::new receives.
Return(callers, arena, index) ==
    IF callers = <<>>
    THEN [stack |-> <<>>, nodes |-> arena, index |-> index]
    ELSE LET c == Top(callers)
             leaves == store_leaf(c.leaves, c.leaf, index)
         IN IF c.leaf < 4
            THEN LET next == [c EXCEPT !.leaf = c.leaf + 1, !.leaves = leaves]
                 IN [stack |-> Append(Append(Pop(callers), next),
                                      ChildCall(c, c.leaf + 1)),
                     nodes |-> arena, index |-> UsizeMax]
            ELSE Return(Pop(callers), Append(arena, Branch(c.bounds, leaves)),
                        Len(arena))

\* mutant: the leaf test comes before the depth guard
call_outcome_leaf_first(c, threshold) ==
    IF Len(c.entries) <= threshold THEN "Leaf"
    ELSE IF c.depth >= RecursionLimit THEN "Err"
    ELSE "Branch"

\* mutant: a region splits as soon as it holds split_threshold entries
call_outcome_strict(c, threshold) ==
    IF c.depth >= RecursionLimit THEN "Err"
    ELSE IF Len(c.entries) < threshold THEN "Leaf"
    ELSE "Branch"

\* which arm of build_recursive a call takes: the depth guard comes first
call_outcome(c, threshold) ==
    IF c.depth >= RecursionLimit THEN "Err"
    ELSE IF Len(c.entries) <= threshold THEN "Leaf"
    ELSE "Branch"

\* the body of build_recursive for the call on top of the stack
BuildStep ==
    /\ pc = "building"
    /\ LET c == Top(stack)
           outcome == call_outcome(c, args.split_threshold)
       IN
       IF outcome = "Err"
       THEN \* Err(ReachedRecursionLimit), handed up by every `?`
            /\ result' = "Err"
            /\ pc' = "idle"
            /\ stack' = <<>>
            /\ building' = <<>>
            /\ unwound' = stack
            /\ UNCHANGED <<nodes, root, split_threshold>>
       ELSE IF outcome = "Leaf"
       THEN LET r == Return(Pop(stack),
                            Append(building, Leaf(c.bounds, entry_ids(c.entries))),
                            Len(building))
            IN IF r.stack = <<>>
               THEN \* Ok(Self { nodes, root, split_threshold })
                    /\ nodes' = r.nodes
                    /\ root' = r.index
                    /\ split_threshold' = args.split_threshold
                    /\ result' = "Ok"
                    /\ pc' = "idle"
                    /\ stack' = <<>>
                    /\ building' = <<>>
                    /\ UNCHANGED unwound
               ELSE /\ stack' = r.stack
                    /\ building' = r.nodes
                    /\ UNCHANGED <<nodes, root, split_threshold, result, pc, unwound>>
       ELSE /\ stack' = Append(Append(Pop(stack), [c EXCEPT !.leaf = 1]),
                               ChildCall(c, 1))
            /\ UNCHANGED <<nodes, root, split_threshold, result, pc, building,
                           unwound>>
    /\ deepest' = IF stack' # <<>> /\ Top(stack').depth > deepest
                  THEN Top(stack').depth ELSE deepest
    /\ crowded' = IF stack' # <<>> /\ Len(Top(stack').entries) > args.split_threshold
                  THEN crowded \cup {Top(stack').depth} ELSE crowded
    /\ UNCHANGED <<args, query>>

\* ------------------------------------------------------------------------
\* trees written as struct literals (test::quad_tree_point_query)
\* ------------------------------------------------------------------------
\* the pool of the "leaf" case: one leaf with the root bounds and ids [0, 1]
LeafPool == << Leaf(Rect(FZero, FZero, Lit(200), Lit(200)), <<0, 1>>) >>

\* the pool of the "branch" case: the leaf a = 0 and the branch b = 1 whose
\* four children are all a
BranchPool ==
    Append(LeafPool, Branch(Rect(FZero, FZero, Lit(200), Lit(200)), <<0, 0, 0, 0>>))

\* QuadTree { root, nodes: pool, ..Default::default() }
Literals ==
    { [nodes |-> LeafPool, root |-> 0, split_threshold |-> Default.split_threshold],
      [nodes |-> BranchPool, root |-> 1, split_threshold |-> Default.split_threshold] }

\* a tree is made from a struct literal instead of QuadTree::new
FromLiteral(tree) ==
    /\ pc = "idle"
    /\ result = "None"
    /\ ~query.made
    /\ nodes' = tree.nodes
    /\ root' = tree.root
    /\ split_threshold' = tree.split_threshold
    /\ result' = "Literal"
    /\ UNCHANGED <<pc, args, building, stack, deepest, crowded, unwound, query>>

\* ------------------------------------------------------------------------
\* QueryStorage and point_query
\* ------------------------------------------------------------------------
\* largest CAP of an ArrayVec<I, CAP> used as storage
MaxCap == 1

\* an id no offered object has
StaleId == MaxObjects + MaxCap

VecStorage(items) == [kind |-> "Vec", cap |-> 0, items |-> items]
ArrayVecStorage(cap) == [kind |-> "ArrayVec", cap |-> cap, items |-> <<>>]

\* the storages a caller passes to point_query
Storages ==
    { VecStorage(<<>>), VecStorage(<<StaleId>>) }
        \cup { ArrayVecStorage(cap) : cap \in 1..MaxCap }

\* mutant: a Vec that reports success without keeping the id
vec_try_push_forgetting(storage, id) == [storage |-> storage, accepted |-> TRUE]

\* QueryStorage::try_push for Vec: always accepts
vec_try_push(storage, id) ==
    [storage |-> [storage EXCEPT !.items = Append(@, id)], accepted |-> TRUE]

\* mutant: a full ArrayVec gives up its last item for the new one
array_vec_try_push_replacing(storage, id) ==
    IF Len(storage.items) < storage.cap
    THEN [storage |-> [storage EXCEPT !.items = Append(@, id)], accepted |-> TRUE]
    ELSE [storage |-> [storage EXCEPT !.items[storage.cap] = id],
          accepted |-> FALSE]

\* QueryStorage::try_push for ArrayVec: rejects once len == CAP
array_vec_try_push(storage, id) ==
    IF Len(storage.items) < storage.cap
    THEN [storage |-> [storage EXCEPT !.items = Append(@, id)], accepted |-> TRUE]
    ELSE [storage |-> storage, accepted |-> FALSE]

try_push(storage, id) ==
    IF storage.kind = "Vec" THEN vec_try_push(storage, id)
    ELSE array_vec_try_push(storage, id)

RECURSIVE offer_ids_to_the_end(_, _, _, _, _, _)
\* mutant: the loop goes on after a try_push that is rejected
offer_ids_to_the_end(call, node, ids, i, storage, pushes) ==
    IF i > Len(ids) THEN [storage |-> storage, pushes |-> pushes]
    ELSE LET r == try_push(storage, ids[i])
             log == Append(pushes, [call |-> call, node |-> node, id |-> ids[i],
                                    accepted |-> r.accepted])
         IN offer_ids_to_the_end(call, node, ids, i + 1, r.storage, log)

RECURSIVE offer_ids(_, _, _, _, _, _)
\* the loop `for id in ids` of a leaf from position i on; it returns at the
\* first try_push that is rejected.  `pushes` records every try_push call, with
\* the number of the point_query_recursive call that made it.
offer_ids(call, node, ids, i, storage, pushes) ==
    IF i > Len(ids) THEN [storage |-> storage, pushes |-> pushes]
    ELSE LET r == try_push(storage, ids[i])
             log == Append(pushes, [call |-> call, node |-> node, id |-> ids[i],
                                    accepted |-> r.accepted])
         IN IF ~r.accepted THEN [storage |-> r.storage, pushes |-> log]
            ELSE offer_ids(call, node, ids, i + 1, r.storage, log)

\* mutant: a child the branch names again is not visited again
child_calls_once(leaves) ==
    SelectSeq([i \in 1..Len(leaves) |->
                  IF \E j \in 1..(i - 1) : leaves[j] = leaves[i] THEN UsizeMax
                  ELSE leaves[i]],
              LAMBDA l : l # UsizeMax)

\* for &leaf in leaves: the calls a branch makes, in the order it makes them
child_calls(leaves) == leaves

\* what the caller knows, when it asks for `point`, of the ids an empty Vec
\* receives for this point: << >> if the tree has not been asked for the point
\* with an empty Vec, else << the Vec's items after that query >>
unbounded_result(point) ==
    IF ~query.made \/ query.point # point THEN <<>>
    ELSE IF query.start = VecStorage(<<>>) THEN <<query.storage.items>>
    ELSE query.unbounded

\* QuadTree::point_query up to its call of point_query_recursive; `tree` is
\* the tree as the query finds it
PointQuery(point, storage) ==
    /\ pc = "idle"
    /\ result # "Err"
    /\ pc' = "querying"
    /\ query' = [made |-> TRUE, point |-> point, start |-> storage,
                 storage |-> storage, pushes |-> <<>>, visited |-> <<>>,
                 calls |-> <<root>>,
                 unbounded |-> unbounded_result(point),
                 tree |-> [nodes |-> nodes, root |-> root,
                           split_threshold |-> split_threshold]]
    /\ UNCHANGED <<nodes, root, split_threshold, args, building, stack, result,
                   deepest, crowded, unwound>>

\* The body of point_query_recursive for the next call; `calls` holds the node
\* arguments of the calls still to run, the next one first, so the children of
\* a branch run in the order of its `leaves`, before the siblings that follow it.
QueryStep ==
    /\ pc = "querying"
    /\ LET node == Head(query.calls)
           rest == Tail(query.calls)
           seen == Append(query.visited, node)
       IN IF node >= Len(nodes)
          THEN \* self.nodes.get(node) is None
               query' = [query EXCEPT !.calls = rest, !.visited = seen]
          ELSE LET n == nodes[node + 1] IN
               IF ~contains(n.bounds, query.point)
               THEN query' = [query EXCEPT !.calls = rest, !.visited = seen]
               ELSE IF n.kind = "Leaf"
               THEN LET r == offer_ids(Len(seen), node, n.ids, 1, query.storage,
                                      query.pushes)
                    IN query' = [query EXCEPT !.calls = rest, !.visited = seen,
                                              !.storage = r.storage,
                                              !.pushes = r.pushes]
               ELSE query' = [query EXCEPT !.calls = child_calls(n.leaves) \o rest,
                                           !.visited = seen]
    /\ pc' = IF query'.calls = <<>> THEN "idle" ELSE "querying"
    /\ UNCHANGED <<nodes, root, split_threshold, args, building, stack, result,
                   deepest, crowded, unwound>>

Next ==
    \/ \E rb \in RootBounds, objs \in Scenes, k \in 0..MaxThreshold :
          New(rb, objs, k)
    \/ BuildStep
    \/ \E tree \in Literals : FromLiteral(tree)
    \/ \E point \in Points, storage \in Storages : PointQuery(point, storage)
    \/ QueryStep

Spec == Init /\ [][Next]_vars

\* ------------------------------------------------------------------------
\* vocabulary of the properties
\* ------------------------------------------------------------------------
\* QuadTree::new has returned
Returned == result \in {"Ok", "Err"}
\* QuadTree::new has returned Ok and the tree has not been queried yet (a
\* query leaves the tree as it is, so the tree of every later state is this one)
Built == result = "Ok" /\ ~query.made
\* a point_query has run to its end
Queried == query.made /\ pc = "idle"

\* the root bounds of test_quad_tree
TestRoot == Rect(FZero, FZero, Lit(200), Lit(200))

ObjectIds == [i \in 1..Len(args.objects) |-> i - 1]
BoundsOf(id) == args.objects[id + 1]
\* the ids, in input order, of the offered objects that satisfy Keep
IdsWhere(Keep(_)) == SelectSeq(ObjectIds, Keep)
InRoot(id) == intersects(args.root_bounds, BoundsOf(id))

NodeIds == 0..(Len(nodes) - 1)
Node(n) == nodes[n + 1]
LeafIds == { n \in NodeIds : Node(n).kind = "Leaf" }
BranchIds == { n \in NodeIds : Node(n).kind = "Branch" }
Elems(seq) == { seq[i] : i \in 1..Len(seq) }

\* the f32 right and bottom edge of a rectangle, as contains and intersects compute it
Right(r) == FAdd(r.position[1], r.size[1])
Bottom(r) == FAdd(r.position[2], r.size[2])

\* the branch that has n as a child
Parent(n) == CHOOSE b \in BranchIds : n \in Elems(Node(b).leaves)

RECURSIVE Path(_)
\* the nodes from the root down to n
Path(n) == IF n = root THEN {n} ELSE {n} \cup Path(Parent(n))

\* ------------------------------------------------------------------------
\* C1
\* ------------------------------------------------------------------------
\* C1: QuadTree::new returns ReachedRecursionLimit exactly when build_recursive
\* is called at depth 64 (no call is ever deeper), which is exactly when a call
\* at depth 63 was made with more than split_threshold entries; the error is
\* raised by the depth-64 call whatever its own entries are.
C1_DepthGuardFirst ==
    /\ deepest <= 64
    /\ Returned =>
        /\ (result = "Err") <=> (deepest >= 64)
        /\ (result = "Err") <=> (63 \in crowded)
    /\ result = "Err" =>
        /\ Len(unwound) = 65
        /\ Top(unwound).depth = 64
        /\ unwound[64].depth = 63
        /\ Len(unwound[64].entries) > args.split_threshold

\* a build that failed although every quadrant of its depth-63 region holds at
\* most split_threshold entries, two of them none
C1_Witness ==
    /\ result = "Err"
    /\ \A q \in 1..4 :
          Len(ChildCall(unwound[64], q).entries) <= args.split_threshold
    /\ Cardinality({ q \in 1..4 : Len(ChildCall(unwound[64], q).entries) = 0 }) = 2

\* ------------------------------------------------------------------------
\* C2
\* ------------------------------------------------------------------------
\* the number of offered objects whose bounds are b
Copies(b) == Cardinality({ i \in 1..Len(args.objects) : args.objects[i] = b })

\* an offered object with more than split_threshold identical copies in the root
Crowding(id) == InRoot(id) /\ Copies(BoundsOf(id)) > args.split_threshold

\* the ids stored in the leaves of the tree
StoredIds == UNION { Elems(Node(n).ids) : n \in LeafIds }

\* C2: more than split_threshold offered objects with identical bounds that
\* intersect the root bounds make QuadTree::new fail with ReachedRecursionLimit.
\* Two copies of the zero-size (100,100,0,0) in the root (0,0,200,200) with
\* threshold 1 lie on both split lines of the root: no quadrant keeps them and
\* the build returns a tree of four empty leaves.
C2_IdenticalBoundsFail ==
    Returned => \A id \in Elems(ObjectIds) : Crowding(id) => result = "Err"

\* ------------------------------------------------------------------------
\* C3
\* ------------------------------------------------------------------------
\* C3 as claimed: with split_threshold 1, two objects whose bounds do not
\* intersect each other are built into a tree.
C3_Original ==
    ( /\ Returned
      /\ args.split_threshold = 1
      /\ Len(args.objects) = 2
      /\ ~intersects(args.objects[1], args.objects[2])
      /\ ~intersects(args.objects[2], args.objects[1]) )
    => result = "Ok"

\* the second build of test_quad_tree
TestBuild ==
    args = [root_bounds |-> TestRoot, objects |-> <<TestObjectA, TestObjectB>>,
            split_threshold |-> 1]

\* C3 (amended): QuadTree::new with split_threshold 1 succeeds for the bounds
\* (10,10,10,10) and (20,20,10,10) against the root (0,0,200,200): the
\* partition goes no deeper than 27 and leaves each object in leaves of its own.
C3_TestBuildSucceeds ==
    (Returned /\ TestBuild) =>
        /\ result = "Ok"
        /\ deepest = 27
        /\ \A n \in LeafIds : Len(Node(n).ids) <= 1
        /\ StoredIds = {0, 1}

\* the second build of test_quad_tree has returned
C3_Witness == Built /\ TestBuild /\ Len(nodes) > 1

\* ------------------------------------------------------------------------
\* C4
\* ------------------------------------------------------------------------
\* C4: when at most split_threshold offered objects intersect the root bounds,
\* QuadTree::new succeeds with an arena of one node, the leaf at index 0 = root,
\* whose bounds are the root bounds and whose ids are those objects' ids in
\* input order.
C4_SingleLeaf ==
    (Returned /\ Len(IdsWhere(InRoot)) <= args.split_threshold) =>
        /\ result = "Ok"
        /\ Len(nodes) = 1
        /\ root = 0
        /\ nodes[1].kind = "Leaf"
        /\ nodes[1].bounds = args.root_bounds
        /\ nodes[1].ids = IdsWhere(InRoot)

\* a single leaf that holds two ids and leaves out an object outside the root
C4_Witness ==
    /\ Built
    /\ Len(nodes) = 1
    /\ Len(nodes[1].ids) = args.split_threshold
    /\ nodes[1].ids = <<0, 1>>

\* ------------------------------------------------------------------------
\* C5
\* ------------------------------------------------------------------------
\* C5 as claimed: a leaf's ids are exactly the ids of the offered objects whose
\* bounds intersect the root bounds and the leaf's bounds.
C5_Original ==
    Built =>
        \A n \in LeafIds :
            Node(n).ids = IdsWhere(LAMBDA id : /\ InRoot(id)
                                               /\ intersects(Node(n).bounds, BoundsOf(id)))

\* C5 (amended): a leaf's ids are exactly the ids, in input order, of the
\* offered objects whose bounds intersect the root bounds and the bounds of
\* every node on the way from the root to the leaf, the leaf included; so no
\* stored id has bounds that miss the leaf's region.
C5_LeafIdsFilteredOnPath ==
    Built =>
        \A n \in LeafIds :
            /\ Node(n).ids =
                  IdsWhere(LAMBDA id :
                      /\ InRoot(id)
                      /\ \A a \in Path(n) : intersects(Node(a).bounds, BoundsOf(id)))
            /\ \A id \in Elems(Node(n).ids) :
                  InRoot(id) /\ intersects(Node(n).bounds, BoundsOf(id))

\* a leaf that stores an id and whose region, rounded past its parent's,
\* intersects a root-intersecting object it does not store
C5_Witness ==
    /\ Built
    /\ \E n \in LeafIds :
          /\ n # root
          /\ Node(n).ids # <<>>
          /\ \E id \in Elems(ObjectIds) :
                /\ InRoot(id)
                /\ intersects(Node(n).bounds, BoundsOf(id))
                /\ ~intersects(Node(Parent(n)).bounds, BoundsOf(id))
                /\ id \notin Elems(Node(n).ids)

\* ------------------------------------------------------------------------
\* C6
\* ------------------------------------------------------------------------
\* C6: in a built tree every branch has 4 child indices, each a valid arena
\* index smaller than the branch's own; the index of every node above a node is
\* greater than the node's.
C6_ChildrenBeforeParent ==
    Built =>
        /\ root = Len(nodes) - 1
        /\ \A b \in BranchIds :
              /\ Len(Node(b).leaves) = 4
              /\ \A i \in 1..4 : Node(b).leaves[i] \in 0..(b - 1)
        /\ \A n \in NodeIds : \A a \in Path(n) \ {n} : a > n

\* a built tree with a branch below a branch
C6_Witness ==
    /\ Built
    /\ \E b \in BranchIds : \E i \in 1..4 : Node(b).leaves[i] \in BranchIds

\* ------------------------------------------------------------------------
\* C7
\* ------------------------------------------------------------------------
\* the bounds of child i of branch b
ChildBounds(b, i) == Node(Node(b).leaves[i]).bounds

\* the children of b have half its width and height and lie, in the order
\* top-left, top-right, bottom-right, bottom-left, at its position and at the
\* f32 sums of its position and the half sizes
Quartered(b) ==
    LET r == Node(b).bounds
        half == <<FHalf(r.size[1]), FHalf(r.size[2])>>
        midx == FAdd(r.position[1], half[1])
        midy == FAdd(r.position[2], half[2])
    IN /\ \A i \in 1..4 : ChildBounds(b, i).size = half
       /\ ChildBounds(b, 1).position = r.position
       /\ ChildBounds(b, 2).position = <<midx, r.position[2]>>
       /\ ChildBounds(b, 3).position = <<midx, midy>>
       /\ ChildBounds(b, 4).position = <<r.position[1], midy>>

\* siblings meet on the split lines: the left children end where the right
\* ones begin, the top children where the bottom ones begin
SiblingsShareEdges(b) ==
    /\ Right(ChildBounds(b, 1)) = ChildBounds(b, 2).position[1]
    /\ Right(ChildBounds(b, 4)) = ChildBounds(b, 3).position[1]
    /\ Bottom(ChildBounds(b, 1)) = ChildBounds(b, 4).position[2]
    /\ Bottom(ChildBounds(b, 2)) = ChildBounds(b, 3).position[2]

\* the children reach the right and bottom edge of b
CoversFarEdges(b) ==
    /\ \A i \in {2, 3} : FLe(Right(Node(b).bounds), Right(ChildBounds(b, i)))
    /\ \A i \in {3, 4} : FLe(Bottom(Node(b).bounds), Bottom(ChildBounds(b, i)))

\* C7 as claimed: the children of a branch are its four equal quadrants in the
\* order top-left, top-right, bottom-right, bottom-left, they cover its bounds
\* with no gap and overlap only on shared edges.
C7_Original ==
    Built =>
        \A b \in BranchIds : Quartered(b) /\ SiblingsShareEdges(b) /\ CoversFarEdges(b)

\* C7 (amended): the children of a branch have half its width and half its
\* height and are stored in the order top-left, top-right, bottom-right,
\* bottom-left; they start at the branch's left and top edge and siblings meet
\* exactly on the split lines, overlapping only there.
C7_Quadrants ==
    Built =>
        \A b \in BranchIds : Quartered(b) /\ SiblingsShareEdges(b)

\* a branch whose right children end, after rounding, before its right edge
C7_Witness ==
    /\ Built
    /\ \E b \in BranchIds :
          /\ Quartered(b)
          /\ FLt(Right(ChildBounds(b, 2)), Right(Node(b).bounds))

\* ------------------------------------------------------------------------
\* C8
\* ------------------------------------------------------------------------
\* the offered objects whose bounds do not intersect the root bounds
Dropped == { id \in Elems(ObjectIds) : ~InRoot(id) }

\* C8: the id of an object whose bounds do not intersect the root bounds is in
\* no leaf, neither of the tree nor of the arena being built, and no try_push
\* of a point_query is called with it.
C8_DroppedNeverReturned ==
    \A id \in Dropped :
        /\ \A i \in 1..Len(building) : id \notin Elems(building[i].ids)
        /\ \A i \in 1..Len(stack) : id \notin Elems(entry_ids(stack[i].entries))
        /\ result = "Ok" => id \notin StoredIds
        /\ query.made =>
              /\ \A i \in 1..Len(query.pushes) : query.pushes[i].id # id
              /\ id \notin Elems(query.storage.items)

\* a query that wrote to the sink, on a tree built without an object that
\* touches the right edge of the root bounds and contains the query point's x
C8_Witness ==
    /\ Queried
    /\ result = "Ok"
    /\ query.pushes # <<>>
    /\ \E id \in Dropped : BoundsOf(id).position[1] = Right(args.root_bounds)

\* ------------------------------------------------------------------------
\* C9
\* ------------------------------------------------------------------------
\* C9: a default-constructed tree has an empty arena, root index 0 and
\* split_threshold 16; a point_query on it calls point_query_recursive once, for
\* the index 0 that addresses no node, calls no try_push and leaves the storage
\* as it was.
C9_DefaultTree ==
    result = "None" =>
        /\ nodes = <<>>
        /\ root = 0
        /\ split_threshold = 16
        /\ query.made =>
              /\ query.pushes = <<>>
              /\ query.storage = query.start
              /\ Queried => query.visited = <<0>>

\* a finished query of a default tree with a storage that held an id before
C9_Witness ==
    /\ result = "None"
    /\ Queried
    /\ query.storage.items = <<StaleId>>

\* ------------------------------------------------------------------------
\* C10
\* ------------------------------------------------------------------------
\* the point lies inside r and on none of its edges
StrictlyInside(r, pt) ==
    /\ FLt(r.position[1], pt[1]) /\ FLt(pt[1], Right(r))
    /\ FLt(r.position[2], pt[2]) /\ FLt(pt[2], Bottom(r))

\* the leaves whose region has the query point strictly inside
LeavesAround == { n \in LeafIds : StrictlyInside(Node(n).bounds, query.point) }

\* a finished query of a built tree with an empty Vec
QueriedWithEmptyVec ==
    Queried /\ result = "Ok" /\ query.start = VecStorage(<<>>)

\* C10 as claimed: with an empty Vec, a query at a point strictly inside the
\* region of one leaf leaves the Vec holding exactly that leaf's ids in order.
C10_Original ==
    (QueriedWithEmptyVec /\ Cardinality(LeavesAround) = 1) =>
        \A n \in LeavesAround : query.storage.items = Node(n).ids

\* C10 (amended): with an empty Vec, a query at a point strictly inside the
\* region of one leaf, inside or on the edge of the region of every branch above
\* that leaf, and neither inside nor on the edge of another leaf's region,
\* leaves the Vec holding exactly that leaf's ids in order.
C10_SingleLeafQuery ==
    QueriedWithEmptyVec =>
        \A n \in LeavesAround :
            ( /\ \A a \in Path(n) : contains(Node(a).bounds, query.point)
              /\ \A m \in LeafIds \ {n} : ~contains(Node(m).bounds, query.point) )
            => /\ query.storage.items = Node(n).ids
               /\ \A i \in 1..Len(query.pushes) : query.pushes[i].node = n

\* such a query, of a leaf below the root that holds an id
C10_Witness ==
    /\ QueriedWithEmptyVec
    /\ \E n \in LeavesAround :
          /\ n # root
          /\ Node(n).ids # <<>>
          /\ \A a \in Path(n) : contains(Node(a).bounds, query.point)
          /\ \A m \in LeafIds \ {n} : ~contains(Node(m).bounds, query.point)
          /\ query.storage.items = Node(n).ids

\* ------------------------------------------------------------------------
\* C11
\* ------------------------------------------------------------------------
\* the i-th call of point_query_recursive found a node whose bounds contain the point
Hit(i) ==
    /\ query.visited[i] < Len(nodes)
    /\ contains(Node(query.visited[i]).bounds, query.point)

HitBranch(i) == Hit(i) /\ Node(query.visited[i]).kind = "Branch"
HitLeaf(i) == Hit(i) /\ Node(query.visited[i]).kind = "Leaf"

\* the number of ids of the leaves that the calls before the i-th one hit
IdsBefore(i) ==
    Cardinality(UNION { { <<u, j>> : j \in 1..Len(Node(query.visited[u]).ids) } :
                        u \in { u \in 1..(i - 1) : HitLeaf(u) } })

\* the ids a query has added to its storage
Written == SubSeq(query.storage.items, Len(query.start.items) + 1,
                  Len(query.storage.items))

\* the tree whose branch names one leaf four times
AliasTree == nodes = BranchPool /\ root = 1

\* C11: a finished point_query has called point_query_recursive for the root
\* and, for every branch whose bounds contain the point, for each of its four
\* children in stored order, the first one right after the branch, whatever
\* try_push returned before; a Vec ends with the ids of the leaves that were
\* hit, leaf after leaf in the order of the calls, nothing left out for being
\* there already: [0,1,0,1,0,1,0,1] for the branch over four times the leaf [0,1].
C11_BranchVisitsAllChildren ==
    Queried =>
        LET v == query.visited IN
        /\ v[1] = root
        /\ Len(v) = 1 + 4 * Cardinality({ i \in 1..Len(v) : HitBranch(i) })
        /\ \A i \in 1..Len(v) :
              HitBranch(i) =>
                  LET leaves == Node(v[i]).leaves IN
                  /\ v[i + 1] = leaves[1]
                  /\ \A k \in 1..3 :
                        \E j \in (i + 1)..Len(v) : \E jj \in (j + 1)..Len(v) :
                            v[j] = leaves[k] /\ v[jj] = leaves[k + 1]
        /\ query.start.kind = "Vec" =>
              /\ Len(Written) = IdsBefore(Len(v) + 1)
              /\ \A i \in 1..Len(v) :
                    HitLeaf(i) =>
                        \A j \in 1..Len(Node(v[i]).ids) :
                            Written[IdsBefore(i) + j] = Node(v[i]).ids[j]
        /\ (AliasTree /\ query.start = VecStorage(<<>>)
                /\ contains(Node(root).bounds, query.point))
              => query.storage.items = <<0, 1, 0, 1, 0, 1, 0, 1>>

\* the "branch" case of test::quad_tree_point_query
C11_Witness ==
    /\ Queried
    /\ AliasTree
    /\ query.point = TestPoint
    /\ query.start = VecStorage(<<>>)
    /\ query.visited = <<1, 0, 0, 0, 0>>
    /\ query.storage.items = <<0, 1, 0, 1, 0, 1, 0, 1>>

\* ------------------------------------------------------------------------
\* C12
\* ------------------------------------------------------------------------
\* the point lies inside r or on one of its four edges
Within(r, pt) ==
    /\ FLe(r.position[1], pt[1]) /\ FLe(pt[1], Right(r))
    /\ FLe(r.position[2], pt[2]) /\ FLe(pt[2], Bottom(r))

\* the children of branch b whose region has the query point inside or on an edge
ChildrenAround(b) ==
    { c \in Elems(Node(b).leaves) : Within(Node(c).bounds, query.point) }

\* the query point lies on a split line of b, shared by sibling regions
OnSplitLine(b) == Cardinality(ChildrenAround(b)) >= 2

\* point_query_recursive was called for node n
Called(n) == n \in Elems(query.visited)

\* the region of n and of every branch above it has the query point inside or
\* on an edge
WithinPath(n) ==
    /\ Within(Node(n).bounds, query.point)
    /\ \A a \in Path(n) : Within(Node(a).bounds, query.point)

\* how often a query has written id to its storage
TimesWritten(id) == Cardinality({ i \in 1..Len(Written) : Written[i] = id })

\* a finished query of a built tree with a Vec
QueriedWithVec == Queried /\ result = "Ok" /\ query.start.kind = "Vec"

\* C12 as claimed: a query at a point on a split line shared by sibling regions
\* matches every sibling region whose bounds contain the point, and an id
\* stored in k leaves whose bounds contain the point is written k times.
C12_Original ==
    QueriedWithVec =>
        /\ \A b \in BranchIds :
              OnSplitLine(b) => \A c \in ChildrenAround(b) : Called(c)
        /\ \A id \in Elems(ObjectIds) :
              TimesWritten(id) =
                  Cardinality({ n \in LeafIds : /\ Within(Node(n).bounds, query.point)
                                                /\ id \in Elems(Node(n).ids) })

\* C12 (amended): a query at a point on a split line shared by sibling regions
\* of a branch, the point being inside or on an edge of the bounds of that
\* branch and of every branch above it, matches every sibling region whose
\* bounds contain the point, edges included; an id stored in k leaves that are
\* matched this way is written to a Vec k times.
C12_SplitLineMatchesSiblings ==
    QueriedWithVec =>
        /\ \A b \in BranchIds :
              (OnSplitLine(b) /\ WithinPath(b)) =>
                  \A c \in ChildrenAround(b) : Called(c)
        /\ \A id \in Elems(ObjectIds) :
              TimesWritten(id) =
                  Cardinality({ n \in LeafIds : /\ WithinPath(n)
                                                /\ id \in Elems(Node(n).ids) })

\* a query on a split line that wrote an id once for each of two sibling leaves
C12_Witness ==
    /\ QueriedWithVec
    /\ \E b \in BranchIds :
          /\ WithinPath(b)
          /\ \E c \in ChildrenAround(b) : \E d \in ChildrenAround(b) \ {c} :
                /\ c \in LeafIds /\ d \in LeafIds
                /\ \E id \in Elems(Node(c).ids) :
                      /\ id \in Elems(Node(d).ids)
                      /\ TimesWritten(id) >= 2

\* ------------------------------------------------------------------------
\* C13
\* ------------------------------------------------------------------------
\* the try_push calls that the i-th call of point_query_recursive made
PushesOf(i) == SelectSeq(query.pushes, LAMBDA p : p.call = i)

\* a try_push of the query has been rejected: the storage is full
FirstRejection ==
    CHOOSE a \in 1..Len(query.pushes) :
        /\ ~query.pushes[a].accepted
        /\ \A b \in 1..(a - 1) : query.pushes[b].accepted

\* C13: in a finished point_query the try_push calls come call after call;
\* a call that hit a leaf offers the leaf's ids in stored order, all of them
\* if none is rejected and none after the first rejection, and any other call
\* offers nothing; the calls after the one whose try_push was rejected first
\* still take place, and each that hits a leaf with ids makes exactly one
\* try_push, which is rejected; the storage holds what it held plus the
\* accepted ids.
C13_StopWithinLeafOnly ==
    Queried =>
        LET P == query.pushes
            v == query.visited
        IN /\ \A a \in 1..Len(P) : \A b \in a..Len(P) : P[a].call <= P[b].call
           /\ \A i \in 1..Len(v) :
                 LET seg == PushesOf(i) IN
                 IF HitLeaf(i)
                 THEN LET ids == Node(v[i]).ids IN
                      /\ Len(seg) <= Len(ids)
                      /\ \A j \in 1..Len(seg) :
                            /\ seg[j].id = ids[j]
                            /\ seg[j].node = v[i]
                            /\ j < Len(seg) => seg[j].accepted
                      /\ (\A j \in 1..Len(seg) : seg[j].accepted)
                            => Len(seg) = Len(ids)
                 ELSE seg = <<>>
           /\ (\E a \in 1..Len(P) : ~P[a].accepted) =>
                 /\ \A b \in FirstRejection..Len(P) : ~P[b].accepted
                 /\ \A i \in (P[FirstRejection].call + 1)..Len(v) :
                       Len(PushesOf(i)) =
                           IF HitLeaf(i) /\ Node(v[i]).ids # <<>> THEN 1 ELSE 0
           /\ Written = [j \in 1..Len(Written) |->
                            SelectSeq(P, LAMBDA p : p.accepted)[j].id]
           /\ Len(Written) = Len(SelectSeq(P, LAMBDA p : p.accepted))

\* a full ArrayVec on the branch over four times the leaf [0, 1]: id 0 is
\* accepted, id 1 rejected, and each of the three later calls offers id 0 only
C13_Witness ==
    /\ Queried
    /\ AliasTree
    /\ query.start.kind = "ArrayVec"
    /\ query.start.cap = 1
    /\ query.visited = <<1, 0, 0, 0, 0>>
    /\ [j \in 1..Len(query.pushes) |->
           <<query.pushes[j].call, query.pushes[j].id, query.pushes[j].accepted>>]
         = << <<2, 0, TRUE>>, <<2, 1, FALSE>>, <<3, 0, FALSE>>, <<4, 0, FALSE>>,
              <<5, 0, FALSE>> >>
    /\ query.storage.items = <<0>>

\* ------------------------------------------------------------------------
\* C14
\* ------------------------------------------------------------------------
Min(a, b) == IF a <= b THEN a ELSE b

\* a finished query with an ArrayVec at a point for which the tree has been
\* asked with an empty Vec before
QueriedBoth ==
    Queried /\ query.start.kind = "ArrayVec" /\ query.unbounded # <<>>

C15_NoEntryLost ==
    Built => \A id \in Elems(ObjectIds) : InRoot(id) => id \in StoredIds

\* ------------------------------------------------------------------------
\* C16
\* ------------------------------------------------------------------------
\* C16: a point_query with a Vec, at a point the root bounds contain, writes at
\* least once the id of every offered object whose bounds intersect the root
\* bounds and contain the point.  The object of zero size at (100,100) is in
\* no leaf of a tree that was split, and a query at (100,100) writes nothing.
C16_QueryFindsOverlapping ==
    (QueriedWithVec /\ contains(args.root_bounds, query.point)) =>
        \A id \in Elems(ObjectIds) :
            (InRoot(id) /\ contains(BoundsOf(id), query.point))
                => TimesWritten(id) >= 1

====
